---- MODULE Spec2Model ----
(***************************************************************************)
(* Model of the PDF runsheet conversion pipeline of                        *)
(* src/services/geminiService.ts: chunking of the document, the retrying   *)
(* extraction call, the merge of the CSV fragments and the fill-down       *)
(* correction.  Text is modelled as a sequence of one-character strings so *)
(* that split, trim, the regular expressions and join are computed as the  *)
(* code computes them.                                                     *)
(***************************************************************************)
EXTENDS Integers, Sequences, FiniteSets, TLC

\* ---------------------------------------------------------------- constants
\* mutant: one more attempt is made
MaxRetriesOneMore == 3 + 1

MAX_RETRIES == 3
INITIAL_RETRY_DELAY_MS == 1000
CHUNK_SIZE == 20

\* Largest page count PDFDocument.load is taken to report.
MaxPages == 45

\* ------------------------------------------------------------ text helpers
Whitespace == {" ", "\t", "\n", "\r", "\f"}

UpperToLower ==
    [c \in {"A","B","C","D","E","F","G","H","I","J","K","L","M","N","O","P","Q","R","S","T",
            "U","V","W","X","Y","Z"} |->
       CASE c = "A" -> "a" [] c = "B" -> "b" [] c = "C" -> "c" [] c = "D" -> "d"
         [] c = "E" -> "e" [] c = "F" -> "f" [] c = "G" -> "g" [] c = "H" -> "h"
         [] c = "I" -> "i" [] c = "J" -> "j" [] c = "K" -> "k" [] c = "L" -> "l"
         [] c = "M" -> "m" [] c = "N" -> "n" [] c = "O" -> "o" [] c = "P" -> "p"
         [] c = "Q" -> "q" [] c = "R" -> "r" [] c = "S" -> "s" [] c = "T" -> "t"
         [] c = "U" -> "u" [] c = "V" -> "v" [] c = "W" -> "w" [] c = "X" -> "x"
         [] c = "Y" -> "y" [] c = "Z" -> "z"]

\* String.prototype.toLowerCase
ToLowerCase(s) ==
    [k \in 1..Len(s) |-> IF s[k] \in DOMAIN UpperToLower THEN UpperToLower[s[k]] ELSE s[k]]

\* s.startsWith(p) at offset 0, as the anchored regular expressions use it
StartsWith(s, p) == Len(s) >= Len(p) /\ SubSeq(s, 1, Len(p)) = p

EndsWith(s, p) == Len(s) >= Len(p) /\ SubSeq(s, Len(s) - Len(p) + 1, Len(s)) = p

\* String.prototype.includes
Includes(s, sub) == \E k \in 0..(Len(s) - Len(sub)) : SubSeq(s, k + 1, k + Len(sub)) = sub

\* String.prototype.trimStart
RECURSIVE TrimStart(_)
TrimStart(s) == IF s # <<>> /\ s[1] \in Whitespace THEN TrimStart(Tail(s)) ELSE s

\* String.prototype.trimEnd
RECURSIVE TrimEnd(_)
TrimEnd(s) ==
    IF s # <<>> /\ s[Len(s)] \in Whitespace THEN TrimEnd(SubSeq(s, 1, Len(s) - 1)) ELSE s

\* String.prototype.trim
Trim(s) == TrimEnd(TrimStart(s))

\* String.prototype.indexOf(c, from) for one character, positions counted from 1,
\* 0 when absent
FirstAt(s, c, from) ==
    LET hits == {k \in from..Len(s) : s[k] = c}
    IN  IF hits = {} THEN 0 ELSE CHOOSE k \in hits : \A j \in hits : k <= j

\* String.prototype.split with a one-character separator
RECURSIVE SplitFrom(_, _, _)
SplitFrom(s, sep, from) ==
    LET p == FirstAt(s, sep, from)
    IN  IF p = 0 THEN <<SubSeq(s, from, Len(s))>>
        ELSE <<SubSeq(s, from, p - 1)>> \o SplitFrom(s, sep, p + 1)

Split(s, sep) == SplitFrom(s, sep, 1)

\* Array.prototype.join with a one-character separator
RECURSIVE Join(_, _)
Join(parts, sep) ==
    IF parts = <<>> THEN <<>>
    ELSE IF Len(parts) = 1 THEN parts[1]
    ELSE parts[1] \o <<sep>> \o Join(Tail(parts), sep)

\* Array.prototype.indexOf, zero-based, -1 when absent
IndexOf(xs, x) ==
    IF \A k \in 1..Len(xs) : xs[k] # x THEN -1
    ELSE (CHOOSE k \in 1..Len(xs) : xs[k] = x /\ \A j \in 1..(k - 1) : xs[j] # x) - 1

Max(a, b) == IF a >= b THEN a ELSE b
Min(a, b) == IF a <= b THEN a ELSE b

RECURSIVE Pow2(_)
Pow2(n) == IF n = 0 THEN 1 ELSE 2 * Pow2(n - 1)

\* ------------------------------------------------------------ text literals
\* The character U+0060, which a TLA+ string literal cannot hold.
Backtick == "BACKTICK"

\* the header line the prompt demands (PROMPT, line 12)
CanonicalHeader ==
    <<"\"","D","a","t","e","\"",",","\"","R","u","n"," ","N","u","m","\"",",","\"","P","i","c",
      "k"," ","U","p"," ","T","i","m","e","\"",",","\"","C","u","s","t","o","m","e","r","\"",
      ",","\"","C","u","s","t","o","m","e","r"," ","I","D","\"",",","\"","P","i","c","k","u",
      "p"," ","A","d","d","r","e","s","s","\"",",","\"","D","r","o","p","o","f","f"," ","A","d",
      "d","r","e","s","s","\"",",","\"","D","r","o","p","o","f","f"," ","T","i","m","e","\"",
      ",","\"","C","o","m","m","e","n","t","\"",",","\"","M","i","l","e","a","g","e","\"">>

\* the literal of headerRegex, lower-cased for the /i flag
HeaderPattern ==
    <<"\"","d","a","t","e","\"",",","\"","r","u","n"," ","n","u","m","\"">>

StrInternal ==
    <<"i","n","t","e","r","n","a","l">>

Str500 ==
    <<"5","0","0">>

StrRunNum ==
    <<"R","u","n"," ","N","u","m">>

StrPickUpTime ==
    <<"P","i","c","k"," ","U","p"," ","T","i","m","e">>

StrPickupAddress ==
    <<"P","i","c","k","u","p"," ","A","d","d","r","e","s","s">>

Fence ==
    <<Backtick,Backtick,Backtick>>

StrCsv ==
    <<"c","s","v">>

\* ------------------------------------------------- inputs: response texts
RowA ==
    <<"1","/","2",",","5",",","0","9",":","0","0",",","A","l",",","1",",","1","2"," ","M","a",
      "i","n",",","4"," ","O","a","k",",","0","9",":","3","0",",",",","1","0">>

RowB ==
    <<"1","/","2",",","5",",",",","B","o","b",",","2",",",",","7"," ","E","l","m",",","0","9",
      ":","4","5",",",",","1","0">>

RowC ==
    <<"1","/","2",",","6",",","1","0",":","0","0",",","C","y",",","3",",","9"," ","P","i","n",
      "e",",","2"," ","A","s","h",",","1","0",":","3","0",",",",","4">>

\* header and one data row, trailing newline
TextHeaderA ==
    <<"\"","D","a","t","e","\"",",","\"","R","u","n"," ","N","u","m","\"",",","\"","P","i","c",
      "k"," ","U","p"," ","T","i","m","e","\"",",","\"","C","u","s","t","o","m","e","r","\"",
      ",","\"","C","u","s","t","o","m","e","r"," ","I","D","\"",",","\"","P","i","c","k","u",
      "p"," ","A","d","d","r","e","s","s","\"",",","\"","D","r","o","p","o","f","f"," ","A","d",
      "d","r","e","s","s","\"",",","\"","D","r","o","p","o","f","f"," ","T","i","m","e","\"",
      ",","\"","C","o","m","m","e","n","t","\"",",","\"","M","i","l","e","a","g","e","\"","\n",
      "1","/","2",",","5",",","0","9",":","0","0",",","A","l",",","1",",","1","2"," ","M","a",
      "i","n",",","4"," ","O","a","k",",","0","9",":","3","0",",",",","1","0","\n">>

\* fenced: header and a row of run 5 with blank pickup fields
TextFencedHeaderB ==
    <<Backtick,Backtick,Backtick,"c","s","v","\n","\"","D","a","t","e","\"",",","\"","R","u",
      "n"," ","N","u","m","\"",",","\"","P","i","c","k"," ","U","p"," ","T","i","m","e","\"",
      ",","\"","C","u","s","t","o","m","e","r","\"",",","\"","C","u","s","t","o","m","e","r",
      " ","I","D","\"",",","\"","P","i","c","k","u","p"," ","A","d","d","r","e","s","s","\"",
      ",","\"","D","r","o","p","o","f","f"," ","A","d","d","r","e","s","s","\"",",","\"","D",
      "r","o","p","o","f","f"," ","T","i","m","e","\"",",","\"","C","o","m","m","e","n","t",
      "\"",",","\"","M","i","l","e","a","g","e","\"","\n","1","/","2",",","5",",",",","B","o",
      "b",",","2",",",",","7"," ","E","l","m",",","0","9",":","4","5",",",",","1","0","\n",
      Backtick,Backtick,Backtick>>

\* no header: two data rows and a blank line
TextRowsBC ==
    <<"1","/","2",",","5",",",",","B","o","b",",","2",",",",","7"," ","E","l","m",",","0","9",
      ":","4","5",",",",","1","0","\n","\n","1","/","2",",","6",",","1","0",":","0","0",",","C",
      "y",",","3",",","9"," ","P","i","n","e",",","2"," ","A","s","h",",","1","0",":","3","0",
      ",",",","4">>

\* the header alone
TextHeaderOnly ==
    <<"\"","D","a","t","e","\"",",","\"","R","u","n"," ","N","u","m","\"",",","\"","P","i","c",
      "k"," ","U","p"," ","T","i","m","e","\"",",","\"","C","u","s","t","o","m","e","r","\"",
      ",","\"","C","u","s","t","o","m","e","r"," ","I","D","\"",",","\"","P","i","c","k","u",
      "p"," ","A","d","d","r","e","s","s","\"",",","\"","D","r","o","p","o","f","f"," ","A","d",
      "d","r","e","s","s","\"",",","\"","D","r","o","p","o","f","f"," ","T","i","m","e","\"",
      ",","\"","C","o","m","m","e","n","t","\"",",","\"","M","i","l","e","a","g","e","\"">>

\* a header line in the middle of the fragment
TextRowHeaderRow ==
    <<"1","/","2",",","6",",","1","0",":","0","0",",","C","y",",","3",",","9"," ","P","i","n",
      "e",",","2"," ","A","s","h",",","1","0",":","3","0",",",",","4","\n","\"","D","a","t","e",
      "\"",",","\"","R","u","n"," ","N","u","m","\"",",","\"","P","i","c","k"," ","U","p"," ",
      "T","i","m","e","\"",",","\"","C","u","s","t","o","m","e","r","\"",",","\"","C","u","s",
      "t","o","m","e","r"," ","I","D","\"",",","\"","P","i","c","k","u","p"," ","A","d","d","r",
      "e","s","s","\"",",","\"","D","r","o","p","o","f","f"," ","A","d","d","r","e","s","s",
      "\"",",","\"","D","r","o","p","o","f","f"," ","T","i","m","e","\"",",","\"","C","o","m",
      "m","e","n","t","\"",",","\"","M","i","l","e","a","g","e","\"","\n","1","/","2",",","5",
      ",","0","9",":","0","0",",","A","l",",","1",",","1","2"," ","M","a","i","n",",","4"," ",
      "O","a","k",",","0","9",":","3","0",",",",","1","0">>

\* a header without the Pickup Address column, two rows of run 5
TextNoAddress ==
    <<"\"","D","a","t","e","\"",",","\"","R","u","n"," ","N","u","m","\"",",","\"","P","i","c",
      "k"," ","U","p"," ","T","i","m","e","\"","\n","1","/","2",",","5",",","0","9",":","0","0",
      "\n","1","/","2",",","5",",","\n">>

\* -------------------------------------------------- inputs: error messages
MsgInternal ==
    <<"I","n","t","e","r","n","a","l"," ","e","r","r","o","r">>

Msg500 ==
    <<"g","o","t"," ","5","0","0">>

MsgQuota ==
    <<"q","u","o","t","a"," ","e","x","c","e","e","d","e","d">>

\* ----------------------------------------- inputs: lines for applyFillDownLogic
\* a header with the three columns at 1, 2 and 4 (from 0)
FillHeader ==
    <<"\"","D","a","t","e","\"",",","\"","R","u","n"," ","N","u","m","\"",",","\"","P","i","c",
      "k"," ","U","p"," ","T","i","m","e","\"",",","\"","C","u","s","t","\"",",","\"","P","i",
      "c","k","u","p"," ","A","d","d","r","e","s","s","\"">>

\* a header without the Run Num column
FillHeaderNoRun ==
    <<"\"","D","a","t","e","\"",",","\"","R","u","n","\"",",","\"","P","i","c","k"," ","U","p",
      " ","T","i","m","e","\"",",","\"","C","u","s","t","\"",",","\"","P","i","c","k","u","p",
      " ","A","d","d","r","e","s","s","\"">>

\* run 5, both pickup fields
FillRowFull ==
    <<"d",",","5",",","9",",","c",",","A">>

\* run 5 in quotes, both pickup fields blank
FillRowBlank ==
    <<"d",",","\"","5","\"",",",",","c",",">>

\* run 5, its own time, no address
FillRowNoAddress ==
    <<"d",",","5",",","8",",","c",",">>

\* run 5, no time, its own address
FillRowNoTime ==
    <<"d",",","5",",",",","c",",","B">>

\* run 6, both pickup fields blank
FillRowOtherBlank ==
    <<"d",",","6",",",",","c",",">>

\* no run number, both pickup fields blank
FillRowNoRun ==
    <<"d",",",",",",","c",",">>

\* run 5, two fields only
FillRowShort ==
    <<"d",",","5">>

\* one field only
FillRowOneField ==
    <<"d">>

\* run 5, a space for the time and empty quotes for the address
FillRowSpaces ==
    <<"d",",","5",","," ",",","c",",","\"","\"">>

\* run 6, both pickup fields
FillRowOtherFull ==
    <<"d",",","6",",","7",",","c",",","B">>

\* Largest number of data rows of a line list given to applyFillDownLogic.
MaxRows == 3

FillHeaders == {FillHeader, FillHeaderNoRun}

FillRows ==
    {FillRowFull, FillRowBlank, FillRowNoAddress, FillRowNoTime, FillRowOtherBlank,
     FillRowNoRun, FillRowShort, FillRowOneField, FillRowSpaces, FillRowOtherFull}

\* the line lists applyFillDownLogic is applied to: none, or a header and up
\* to MaxRows data rows
FillInputs ==
    {<<>>} \cup
    {<<h>> \o rows : h \in FillHeaders, rows \in UNION {[1..n -> FillRows] : n \in 0..MaxRows}}

ResponseTexts ==
    {TextHeaderA, TextFencedHeaderB, TextRowsBC, TextHeaderOnly, TextRowHeaderRow,
     TextNoAddress}

\* What generateContent resolves with: a response whose text may be undefined.
Responses ==
    {[hasText |-> TRUE, text |-> t] : t \in ResponseTexts}
        \cup {[hasText |-> FALSE, text |-> <<>>]}

\* What generateContent rejects with, by the message of the error.
ErrorMessages == {MsgInternal, Msg500, MsgQuota}

\* --------------------------------------------------------- callGeminiWithRetry
\* response.text ?? ''
ResponseText(response) == IF response.hasText THEN response.text ELSE <<>>

\* text.replace(/^```(?:csv)?\n?/, '')
StripOpeningFence(text) ==
    IF ~StartsWith(text, Fence) THEN text
    ELSE LET a == SubSeq(text, Len(Fence) + 1, Len(text))
             b == IF StartsWith(a, StrCsv) THEN SubSeq(a, Len(StrCsv) + 1, Len(a)) ELSE a
         IN  IF StartsWith(b, <<"\n">>) THEN Tail(b) ELSE b

\* .replace(/```$/, '')
StripClosingFence(text) ==
    IF EndsWith(text, Fence) THEN SubSeq(text, 1, Len(text) - Len(Fence)) ELSE text

\* the value callGeminiWithRetry returns for a successful attempt
StripFence(text) == Trim(StripClosingFence(StripOpeningFence(text)))

\* mutant: every error is taken to be transient
IsTransientAlways(message) == TRUE

\* errorMessage.includes('internal') || errorMessage.includes('500')
IsTransient(message) ==
    LET errorMessage == ToLowerCase(message)
    IN  Includes(errorMessage, StrInternal) \/ Includes(errorMessage, Str500)

\* mutant: the delay does not grow with the attempt
RetryDelayConstant(att) == INITIAL_RETRY_DELAY_MS

\* delay = INITIAL_RETRY_DELAY_MS * Math.pow(2, attempt)
RetryDelay(att) == INITIAL_RETRY_DELAY_MS * Pow2(att)

ErrServiceBusy == "The AI model is busy. Please try again in a moment."
ErrExtractionFailed ==
    "Failed to convert a page. The file may be corrupted or in an unsupported format."
ErrConfiguration == "API_KEY is not configured in your environment."
ErrInvalidDocument == "The PDF file is empty or corrupted."
ErrEmptyResult ==
    "Conversion resulted in empty or incomplete data. The PDF might not contain a valid runsheet."
ErrLoad == "PDFDocument.load rejected"

\* mutant: the throw after the loop does not classify the last error
FinalErrorUnclassified(message) == ErrExtractionFailed

\* the error thrown after the retry loop, from the last error caught
FinalError(message) == IF IsTransient(message) THEN ErrServiceBusy ELSE ErrExtractionFailed

\* ---------------------------------------------------------- applyFillDownLogic
\* unquote: s?.trim().replace(/^"|"$/g, '') || ''
Unquote(s) ==
    LET a == Trim(s)
        b == IF Len(a) > 0 /\ a[1] = "\"" THEN Tail(a) ELSE a
    IN  IF Len(b) > 0 /\ b[Len(b)] = "\"" THEN SubSeq(b, 1, Len(b) - 1) ELSE b

\* row[index], undefined read as '' (unquote maps both to '')
FieldAt(row, index) == IF index < Len(row) THEN row[index + 1] ELSE <<>>

\* mutant: a value past the end is pushed, no holes are left
SetFieldPush(row, index, value) ==
    IF index < Len(row) THEN [row EXCEPT ![index + 1] = value]
    ELSE Append(row, value)

\* row[index] = value; writing past the end leaves holes, which join renders as ''
SetField(row, index, value) ==
    IF index < Len(row) THEN [row EXCEPT ![index + 1] = value]
    ELSE row \o [k \in 1..(index - Len(row)) |-> <<>>] \o <<value>>

\* mutant: only the blank pickup fields are filled
FillDownRowOnlyBlank(dataRows, i, runNumberIndex, pickupTimeIndex, pickupAddressIndex) ==
    LET prevRow == dataRows[i]
        currentRow == dataRows[i + 1]
    IN  IF Len(prevRow) <= runNumberIndex \/ Len(currentRow) <= runNumberIndex THEN dataRows
        ELSE LET prevRunNumber == Unquote(prevRow[runNumberIndex + 1])
                 currentRunNumber == Unquote(currentRow[runNumberIndex + 1])
                 currentPickupTime == Unquote(FieldAt(currentRow, pickupTimeIndex))
                 currentPickupAddress == Unquote(FieldAt(currentRow, pickupAddressIndex))
                 withTime == IF currentPickupTime = <<>>
                             THEN SetField(currentRow, pickupTimeIndex,
                                           prevRow[pickupTimeIndex + 1])
                             ELSE currentRow
             IN  IF currentRunNumber # <<>> /\ currentRunNumber = prevRunNumber
                    /\ (currentPickupTime = <<>> \/ currentPickupAddress = <<>>)
                    /\ Len(prevRow) > Max(pickupTimeIndex, pickupAddressIndex)
                 THEN [dataRows EXCEPT ![i + 1] =
                          IF currentPickupAddress = <<>>
                          THEN SetField(withTime, pickupAddressIndex,
                                        prevRow[pickupAddressIndex + 1])
                          ELSE withTime]
                 ELSE dataRows

\* mutant: the Run Num of the row is not compared with the one before it
FillDownRowAnyRun(dataRows, i, runNumberIndex, pickupTimeIndex, pickupAddressIndex) ==
    LET prevRow == dataRows[i]
        currentRow == dataRows[i + 1]
    IN  IF Len(prevRow) <= runNumberIndex \/ Len(currentRow) <= runNumberIndex THEN dataRows
        ELSE LET currentRunNumber == Unquote(currentRow[runNumberIndex + 1])
                 currentPickupTime == Unquote(FieldAt(currentRow, pickupTimeIndex))
                 currentPickupAddress == Unquote(FieldAt(currentRow, pickupAddressIndex))
             IN  IF currentRunNumber # <<>>
                    /\ (currentPickupTime = <<>> \/ currentPickupAddress = <<>>)
                    /\ Len(prevRow) > Max(pickupTimeIndex, pickupAddressIndex)
                 THEN [dataRows EXCEPT ![i + 1] =
                          SetField(SetField(currentRow, pickupTimeIndex,
                                            prevRow[pickupTimeIndex + 1]),
                                   pickupAddressIndex, prevRow[pickupAddressIndex + 1])]
                 ELSE dataRows

\* one iteration of the loop over dataRows, i counted from 0 as in the code
FillDownRow(dataRows, i, runNumberIndex, pickupTimeIndex, pickupAddressIndex) ==
    LET prevRow == dataRows[i]
        currentRow == dataRows[i + 1]
    IN  IF Len(prevRow) <= runNumberIndex \/ Len(currentRow) <= runNumberIndex THEN dataRows
        ELSE LET prevRunNumber == Unquote(prevRow[runNumberIndex + 1])
                 currentRunNumber == Unquote(currentRow[runNumberIndex + 1])
                 currentPickupTime == Unquote(FieldAt(currentRow, pickupTimeIndex))
                 currentPickupAddress == Unquote(FieldAt(currentRow, pickupAddressIndex))
             IN  IF currentRunNumber # <<>> /\ currentRunNumber = prevRunNumber
                    /\ (currentPickupTime = <<>> \/ currentPickupAddress = <<>>)
                    /\ Len(prevRow) > Max(pickupTimeIndex, pickupAddressIndex)
                 THEN [dataRows EXCEPT ![i + 1] =
                          SetField(SetField(currentRow, pickupTimeIndex,
                                            prevRow[pickupTimeIndex + 1]),
                                   pickupAddressIndex, prevRow[pickupAddressIndex + 1])]
                 ELSE dataRows

\* mutant: every row is compared with its predecessor as it was given, not as
\* it was corrected
FillDownLoopUncorrected(dataRows, i, runNumberIndex, pickupTimeIndex, pickupAddressIndex) ==
    [k \in 1..Len(dataRows) |->
        IF k <= i THEN dataRows[k]
        ELSE FillDownRow(dataRows, k - 1, runNumberIndex, pickupTimeIndex,
                         pickupAddressIndex)[k]]

\* the loop over dataRows from row i on
RECURSIVE FillDownLoop(_, _, _, _, _)
FillDownLoop(dataRows, i, runNumberIndex, pickupTimeIndex, pickupAddressIndex) ==
    IF i >= Len(dataRows) THEN dataRows
    ELSE FillDownLoop(FillDownRow(dataRows, i, runNumberIndex, pickupTimeIndex,
                                  pickupAddressIndex),
                      i + 1, runNumberIndex, pickupTimeIndex, pickupAddressIndex)

\* mutant: nothing is returned when a column is missing
applyFillDownLogicEmptyOnSkip(csvLines) ==
    IF Len(csvLines) <= 1 THEN csvLines
    ELSE LET splitHeader == Split(csvLines[1], ",")
             header == [k \in 1..Len(splitHeader) |-> Unquote(splitHeader[k])]
             runNumberIndex == IndexOf(header, StrRunNum)
             pickupTimeIndex == IndexOf(header, StrPickUpTime)
             pickupAddressIndex == IndexOf(header, StrPickupAddress)
         IN  IF runNumberIndex = -1 \/ pickupTimeIndex = -1 \/ pickupAddressIndex = -1
             THEN <<>>
             ELSE LET dataRows == [k \in 1..(Len(csvLines) - 1) |-> Split(csvLines[k + 1], ",")]
                      processed == FillDownLoop(dataRows, 1, runNumberIndex, pickupTimeIndex,
                                                pickupAddressIndex)
                  IN  <<csvLines[1]>> \o [k \in 1..Len(processed) |-> Join(processed[k], ",")]

applyFillDownLogic(csvLines) ==
    IF Len(csvLines) <= 1 THEN csvLines
    ELSE LET splitHeader == Split(csvLines[1], ",")
             header == [k \in 1..Len(splitHeader) |-> Unquote(splitHeader[k])]
             runNumberIndex == IndexOf(header, StrRunNum)
             pickupTimeIndex == IndexOf(header, StrPickUpTime)
             pickupAddressIndex == IndexOf(header, StrPickupAddress)
         IN  IF runNumberIndex = -1 \/ pickupTimeIndex = -1 \/ pickupAddressIndex = -1
             THEN csvLines
             ELSE LET dataRows == [k \in 1..(Len(csvLines) - 1) |-> Split(csvLines[k + 1], ",")]
                      processed == FillDownLoop(dataRows, 1, runNumberIndex, pickupTimeIndex,
                                                pickupAddressIndex)
                  IN  <<csvLines[1]>> \o [k \in 1..Len(processed) |-> Join(processed[k], ",")]

\* ------------------------------------------------------------- the merge step
\* headerRegex.test(line), headerRegex = /^"Date","Run Num"/i
HeaderRegexTest(line) ==
    Len(line) >= Len(HeaderPattern)
        /\ ToLowerCase(SubSeq(line, 1, Len(HeaderPattern))) = HeaderPattern

IsNotBlank(line) == Trim(line) # <<>>

\* chunkCsv.split('\n').filter(line => line.trim() !== '')
NonBlankLines(chunkCsv) == SelectSeq(Split(chunkCsv, "\n"), IsNotBlank)

\* mutant: the header of a later fragment is not dropped
FragmentLinesKeepAll(chunkCsv, index) == NonBlankLines(chunkCsv)

\* mutant: the first line of a later fragment is dropped without the header test
FragmentLinesDropFirst(chunkCsv, index) ==
    LET lines == NonBlankLines(chunkCsv)
    IN  IF Len(lines) = 0 THEN <<>>
        ELSE IF index = 0 THEN lines
        ELSE Tail(lines)

\* the body of the forEach callback: the lines fragment number index (from 0) adds
FragmentLines(chunkCsv, index) ==
    LET lines == NonBlankLines(chunkCsv)
    IN  IF Len(lines) = 0 THEN <<>>
        ELSE IF index = 0 THEN lines
        ELSE IF HeaderRegexTest(lines[1]) THEN Tail(lines)
        ELSE lines

RECURSIVE MergeFrom(_, _)
MergeFrom(fragments, index) ==
    IF index >= Len(fragments) THEN <<>>
    ELSE FragmentLines(fragments[index + 1], index) \o MergeFrom(fragments, index + 1)

\* finalCsvLines after csvChunkResults.forEach
MergeFragments(fragments) == MergeFrom(fragments, 0)

\* mutant: one line is taken to be enough
IsIncompleteBelowOne(lines) == Len(lines) < 1

\* finalCsvLines.length < 2
IsIncomplete(lines) == Len(lines) < 2

\* ------------------------------------------------------------ progress sink
MsgLoading == "Loading PDF..."
MsgProcessing == "Processing pages X-Y of N..."
MsgCombining == "Combining results..."
MsgApplying == "Applying data corrections..."

StageMessage(text) == [text |-> text, x |-> 0, y |-> 0, n |-> 0]

\* mutant: the first page is shown counted from 0
ProcessingMessageFromZero(startPage, endPage, count) ==
    [text |-> MsgProcessing, x |-> startPage, y |-> endPage, n |-> count]

\* `Processing pages ${startPage + 1}-${endPage} of ${pageCount}...`
ProcessingMessage(startPage, endPage, count) ==
    [text |-> MsgProcessing, x |-> startPage + 1, y |-> endPage, n |-> count]

\* mutant: the page indices are counted from 1
PageIndicesFromOne(startPage, endPage) == [k \in 1..(endPage - startPage) |-> startPage + k]

\* Array.from({ length: endPage - startPage }, (_, k) => startPage + k)
PageIndices(startPage, endPage) == [k \in 1..(endPage - startPage) |-> startPage + k - 1]

\* -------------------------------------------------------------------- state
VARIABLES
    pc,               \* where convertPdfToCsv is suspended or has ended
    apiKey,           \* whether process.env.API_KEY is set
    pageCount,        \* pdfDoc.getPageCount()
    i,                \* the loop variable of the chunk loop
    chunks,           \* the pageIndices of every sub-document built so far
    progress,         \* what onProgressUpdate has been called with, in order
    attempt,          \* the loop variable of callGeminiWithRetry
    lastError,        \* <<>> for null, <<message>> for the last error caught
    attemptErrors,    \* messages of the failed attempts of the current call
    callRequests,     \* requests made by the current call
    callDelays,       \* backoff delays of the current call, in order
    requests,         \* requests made since the invocation
    inFlight,         \* requests sent and not yet settled
    resolved,         \* calls of callGeminiWithRetry that have settled
    lastResponse,     \* text of the response of the last successful attempt
    chunkCsv,         \* what the last call of callGeminiWithRetry returned
    csvChunkResults,  \* the fragment list
    fragmentChunk,    \* for each fragment, the number of the chunk it came from
    finalCsvLines,    \* the merged line list
    result,           \* <<>> or <<csv>>: what convertPdfToCsv resolved with
    error,            \* "" or the message convertPdfToCsv rejected with
    failures,         \* attempts that have failed since the invocation
    fnPc,             \* the function specifications: "off", "input", "once", "twice"
    fnInput,          \* the argument a function is applied to
    fnOutput,         \* what the function returned
    fnOutput2,        \* what it returned when applied to its own result
    selectedFile,     \* App state: <<>> for null, <<file>> for the file selected
    isProcessing,     \* App state
    progressMessage,  \* App state: <<>> for null, <<message>>
    csvData,          \* App state: <<>> for null, <<csv>>
    appError,         \* App state error: <<>> for null, <<message>>
    fileName,         \* FileUpload state: <<>> for null, <<name>>
    appPc,            \* where handleConvert is suspended: "idle", "encoding", "converting"
    lastOutcome,      \* how the last conversion that ended ended: "none", "success", "failure"
    downloaded        \* <<>> or <<csv>>: what the last download handed over

vars ==
    <<pc, apiKey, pageCount, i, chunks, progress, attempt, lastError, attemptErrors,
      callRequests, callDelays, requests, inFlight, resolved, lastResponse, chunkCsv,
      csvChunkResults, fragmentChunk, finalCsvLines, result, error, failures,
      fnPc, fnInput, fnOutput, fnOutput2,
      selectedFile, isProcessing, progressMessage, csvData, appError, fileName, appPc,
      lastOutcome, downloaded>>

docVars == <<apiKey, pageCount, chunks>>
callVars == <<attempt, lastError, attemptErrors, callRequests, callDelays>>
netVars == <<requests, inFlight, resolved, lastResponse, chunkCsv>>
outVars == <<csvChunkResults, fragmentChunk, finalCsvLines, result>>
fnVars == <<fnPc, fnInput, fnOutput, fnOutput2>>
appVars ==
    <<selectedFile, isProcessing, progressMessage, csvData, appError, fileName, appPc,
      lastOutcome, downloaded>>
pipelineVars ==
    <<pc, apiKey, pageCount, i, chunks, progress, attempt, lastError, attemptErrors,
      callRequests, callDelays, requests, inFlight, resolved, lastResponse, chunkCsv,
      csvChunkResults, fragmentChunk, finalCsvLines, result, error, failures>>

\* the state when convertPdfToCsv is called
InitPipeline ==
    /\ pc = "idle"
    /\ apiKey \in BOOLEAN
    /\ pageCount = 0
    /\ i = 0
    /\ chunks = <<>>
    /\ progress = <<>>
    /\ attempt = 0
    /\ lastError = <<>>
    /\ attemptErrors = <<>>
    /\ callRequests = 0
    /\ callDelays = <<>>
    /\ requests = 0
    /\ inFlight = 0
    /\ resolved = 0
    /\ lastResponse = <<>>
    /\ chunkCsv = <<>>
    /\ csvChunkResults = <<>>
    /\ fragmentChunk = <<>>
    /\ finalCsvLines = <<>>
    /\ result = <<>>
    /\ error = ""
    /\ failures = 0

\* the state of App and of FileUpload when they are mounted
InitApp ==
    /\ selectedFile = <<>>
    /\ isProcessing = FALSE
    /\ progressMessage = <<>>
    /\ csvData = <<>>
    /\ appError = <<>>
    /\ fileName = <<>>
    /\ appPc = "idle"
    /\ lastOutcome = "none"
    /\ downloaded = <<>>

Init ==
    /\ InitPipeline
    /\ InitApp
    /\ fnPc = "off"
    /\ fnInput = <<>>
    /\ fnOutput = <<>>
    /\ fnOutput2 = <<>>

\* mutant: the error is recorded but the pipeline goes on to the merge
ThrowAndGoOn(message) ==
    /\ pc' = "loop"
    /\ error' = message

\* throw: the promise of convertPdfToCsv rejects, nothing else runs
Throw(message) ==
    /\ pc' = "failed"
    /\ error' = message

\* mutant: the credential is not checked
InvokeUnchecked ==
    /\ pc = "idle"
    /\ progress' = Append(progress, StageMessage(MsgLoading))
    /\ pc' = "loading"
    /\ UNCHANGED <<appVars, fnVars, failures, docVars, i, callVars, netVars, outVars, error>>

\* convertPdfToCsv is called: the credential check, 'Loading PDF...', PDFDocument.load
Invoke ==
    /\ pc = "idle"
    /\ IF ~apiKey
       THEN /\ Throw(ErrConfiguration)
            /\ UNCHANGED progress
       ELSE /\ progress' = Append(progress, StageMessage(MsgLoading))
            /\ pc' = "loading"
            /\ UNCHANGED error
    /\ UNCHANGED <<appVars, fnVars, failures, docVars, i, callVars, netVars, outVars>>

\* mutant: the page count is not checked
LoadResolveUnchecked(n) ==
    /\ pc = "loading"
    /\ pageCount' = n
    /\ pc' = "loop"
    /\ csvChunkResults' = <<>>
    /\ i' = 0
    /\ UNCHANGED <<appVars, fnVars, failures, apiKey, chunks, progress, callVars, netVars, fragmentChunk,
                   finalCsvLines, result, error>>

\* PDFDocument.load resolves with a document of n pages
LoadResolve(n) ==
    /\ pc = "loading"
    /\ pageCount' = n
    /\ IF n = 0
       THEN Throw(ErrInvalidDocument)
       ELSE /\ pc' = "loop"
            /\ UNCHANGED error
    /\ csvChunkResults' = <<>>
    /\ i' = 0
    /\ UNCHANGED <<appVars, fnVars, failures, apiKey, chunks, progress, callVars, netVars, fragmentChunk,
                   finalCsvLines, result>>

\* PDFDocument.load rejects (unreadable document)
LoadReject ==
    /\ pc = "loading"
    /\ Throw(ErrLoad)
    /\ UNCHANGED <<appVars, fnVars, failures, docVars, i, progress, callVars, netVars, outVars>>

\* the head of the chunk loop, i < pageCount: the progress message, then the
\* sub-document is being built
ChunkBegin ==
    /\ pc = "loop"
    /\ i < pageCount
    /\ LET startPage == i
           endPage == Min(i + CHUNK_SIZE, pageCount)
       IN  progress' = Append(progress, ProcessingMessage(startPage, endPage, pageCount))
    /\ pc' = "building"
    /\ UNCHANGED <<appVars, fnVars, failures, docVars, i, callVars, netVars, outVars, error>>

\* the sub-document is saved; callGeminiWithRetry is entered
ChunkBuilt ==
    /\ pc = "building"
    /\ LET startPage == i
           endPage == Min(i + CHUNK_SIZE, pageCount)
       IN  chunks' = Append(chunks, PageIndices(startPage, endPage))
    /\ lastError' = <<>>
    /\ attempt' = 0
    /\ attemptErrors' = <<>>
    /\ callRequests' = 0
    /\ callDelays' = <<>>
    /\ pc' = "attempt"
    /\ UNCHANGED <<appVars, fnVars, failures, apiKey, pageCount, i, progress, netVars, outVars, error>>

\* the head of the retry loop, attempt < MAX_RETRIES: generateContent is called
SendRequest ==
    /\ pc = "attempt"
    /\ attempt < MAX_RETRIES
    /\ requests' = requests + 1
    /\ callRequests' = callRequests + 1
    /\ inFlight' = inFlight + 1
    /\ pc' = "awaiting"
    /\ UNCHANGED <<appVars, fnVars, failures, docVars, i, progress, attempt, lastError, attemptErrors,
                   callDelays,
                   resolved, lastResponse, chunkCsv, outVars, error>>

\* mutant: the fragment is put at the front of the list
ResponseSuccessUnshift(response) ==
    /\ pc = "awaiting"
    /\ inFlight' = inFlight - 1
    /\ resolved' = resolved + 1
    /\ lastResponse' = ResponseText(response)
    /\ LET returned == StripFence(ResponseText(response))
       IN  /\ chunkCsv' = returned
           /\ IF returned # <<>>
              THEN /\ csvChunkResults' = <<returned>> \o csvChunkResults
                   /\ fragmentChunk' = <<Len(chunks) - 1>> \o fragmentChunk
              ELSE UNCHANGED <<csvChunkResults, fragmentChunk>>
    /\ i' = i + CHUNK_SIZE
    /\ pc' = "loop"
    /\ UNCHANGED <<appVars, fnVars, failures, docVars, progress, callVars, requests, finalCsvLines,
                   result, error>>

\* mutant: the returned text is pushed even when it is empty
ResponseSuccessPushEmpty(response) ==
    /\ pc = "awaiting"
    /\ inFlight' = inFlight - 1
    /\ resolved' = resolved + 1
    /\ lastResponse' = ResponseText(response)
    /\ LET returned == StripFence(ResponseText(response))
       IN  /\ chunkCsv' = returned
           /\ csvChunkResults' = Append(csvChunkResults, returned)
           /\ fragmentChunk' = Append(fragmentChunk, Len(chunks) - 1)
    /\ i' = i + CHUNK_SIZE
    /\ pc' = "loop"
    /\ UNCHANGED <<appVars, fnVars, failures, docVars, progress, callVars, requests, finalCsvLines,
                   result, error>>

\* generateContent resolves: the call returns, the fragment is pushed when it
\* is not empty, and the chunk loop steps
ResponseSuccess(response) ==
    /\ pc = "awaiting"
    /\ inFlight' = inFlight - 1
    /\ resolved' = resolved + 1
    /\ lastResponse' = ResponseText(response)
    /\ LET returned == StripFence(ResponseText(response))
       IN  /\ chunkCsv' = returned
           /\ IF returned # <<>>
              THEN /\ csvChunkResults' = Append(csvChunkResults, returned)
                   /\ fragmentChunk' = Append(fragmentChunk, Len(chunks) - 1)
              ELSE UNCHANGED <<csvChunkResults, fragmentChunk>>
    /\ i' = i + CHUNK_SIZE
    /\ pc' = "loop"
    /\ UNCHANGED <<appVars, fnVars, failures, docVars, progress, callVars, requests, finalCsvLines,
                   result, error>>

\* generateContent rejects with an error of the given message: the catch block,
\* and, when the loop is left, the throw after it
ResponseFail(message) ==
    /\ pc = "awaiting"
    /\ inFlight' = inFlight - 1
    /\ lastError' = <<message>>
    /\ attemptErrors' = Append(attemptErrors, message)
    /\ failures' = failures + 1
    /\ IF IsTransient(message) /\ attempt < MAX_RETRIES - 1
       THEN /\ callDelays' = Append(callDelays, RetryDelay(attempt))
            /\ pc' = "backoff"
            /\ UNCHANGED <<attempt, resolved, error>>
       ELSE /\ attempt' = IF IsTransient(message) THEN attempt + 1 ELSE attempt
            /\ resolved' = resolved + 1
            /\ Throw(FinalError(lastError'[1]))
            /\ UNCHANGED callDelays
    /\ UNCHANGED <<appVars, fnVars, docVars, i, progress, callRequests, requests, lastResponse,
                   chunkCsv, outVars>>

\* mutant: the promise of the backoff delay is never resolved
BackoffResolveLost ==
    /\ pc = "backoff"
    /\ UNCHANGED vars

\* the backoff timer fires: continue, attempt++
BackoffResolve ==
    /\ pc = "backoff"
    /\ attempt' = attempt + 1
    /\ pc' = "attempt"
    /\ UNCHANGED <<appVars, fnVars, failures, docVars, i, progress, lastError, attemptErrors,
                   callRequests, callDelays,
                   netVars, outVars, error>>

\* the chunk loop is left: 'Combining results...', the merge and its length check
Merge ==
    /\ pc = "loop"
    /\ i >= pageCount
    /\ progress' = Append(progress, StageMessage(MsgCombining))
    /\ finalCsvLines' = MergeFragments(csvChunkResults)
    /\ IF IsIncomplete(finalCsvLines')
       THEN Throw(ErrEmptyResult)
       ELSE /\ pc' = "correcting"
            /\ UNCHANGED error
    /\ UNCHANGED <<appVars, fnVars, failures, docVars, i, callVars, netVars, csvChunkResults,
                   fragmentChunk, result>>

\* 'Applying data corrections...', the fill-down and the join
Correct ==
    /\ pc = "correcting"
    /\ progress' = Append(progress, StageMessage(MsgApplying))
    /\ result' = <<Join(applyFillDownLogic(finalCsvLines), "\n")>>
    /\ pc' = "done"
    /\ UNCHANGED <<appVars, fnVars, failures, docVars, i, callVars, netVars, csvChunkResults, fragmentChunk,
                   finalCsvLines, error>>

Next ==
    \/ Invoke
    \/ \E n \in 0..MaxPages : LoadResolve(n)
    \/ LoadReject
    \/ ChunkBegin
    \/ ChunkBuilt
    \/ SendRequest
    \/ \E response \in Responses : ResponseSuccess(response)
    \/ \E message \in ErrorMessages : ResponseFail(message)
    \/ BackoffResolve
    \/ Merge
    \/ Correct

Spec == Init /\ [][Next]_vars

\* the outcomes of an attempt by kind: a text of two lines, no text, a
\* transient error, another error
LiveResponses == {[hasText |-> TRUE, text |-> TextHeaderA], [hasText |-> FALSE, text |-> <<>>]}
LiveErrorMessages == {MsgInternal, MsgQuota}

LiveNext ==
    \/ Invoke
    \/ \E n \in 0..MaxPages : LoadResolve(n)
    \/ LoadReject
    \/ ChunkBegin
    \/ ChunkBuilt
    \/ SendRequest
    \/ \E response \in LiveResponses : ResponseSuccess(response)
    \/ \E message \in LiveErrorMessages : ResponseFail(message)
    \/ BackoffResolve
    \/ Merge
    \/ Correct

\* the steps that end at an await or at a throw
LiveAwaitNext ==
    \/ Invoke
    \/ \E n \in 0..MaxPages : LoadResolve(n)
    \/ LoadReject
    \/ ChunkBegin
    \/ ChunkBuilt
    \/ SendRequest
    \/ \E response \in LiveResponses : ResponseSuccess(response)
    \/ \E message \in LiveErrorMessages : ResponseFail(message)
    \/ BackoffResolve
    \/ Merge

\* the synchronous tail after the merge: control leaves "correcting"
CorrectReturns ==
    /\ pc = "correcting"
    /\ pc' = "done"

\* every request and every backoff delay settles, and the steps between two
\* awaits run: the one flow of control always takes its next step
LiveSpec ==
    /\ Init
    /\ [][LiveNext]_vars
    /\ WF_vars(LiveAwaitNext)
    /\ WF_pc(CorrectReturns)

TypeOK ==
    /\ pc \in {"idle", "loading", "loop", "building", "attempt", "awaiting", "backoff",
               "correcting", "done", "failed"}
    /\ pageCount \in 0..MaxPages
    /\ attempt \in 0..MAX_RETRIES
    /\ inFlight \in 0..1

\* =================================================================== claims
RECURSIVE Flatten(_)
Flatten(seqs) == IF seqs = <<>> THEN <<>> ELSE seqs[1] \o Flatten(Tail(seqs))

Range(s) == {s[k] : k \in 1..Len(s)}

CeilDiv(a, b) == (a + b - 1) \div b

\* the chunk loop has been left
ChunkLoopLeft == StageMessage(MsgCombining) \in Range(progress)

\* the merge step has run (it runs right after 'Combining results...')
MergeRan == StageMessage(MsgCombining) \in Range(progress)

\* messages that contain 'internal' or '500', and one that contains neither
TransientMessages == {MsgInternal, Msg500}
NonTransientMessages == {MsgQuota}

\* the last call of callGeminiWithRetry returned a text
CallReturned ==
    /\ callRequests > 0
    /\ Len(attemptErrors) = callRequests - 1
    /\ pc \notin {"attempt", "awaiting", "backoff"}

\* the last call of callGeminiWithRetry threw
CallThrew ==
    /\ callRequests > 0
    /\ Len(attemptErrors) = callRequests
    /\ pc \notin {"attempt", "awaiting", "backoff"}

\* C1: every chunk built so far holds the pages [k*20, min((k+1)*20, N)) in
\* order, and once the chunk loop is left there are exactly ceil(N/20) chunks
\* whose page ranges, one after the other, are exactly 0, 1, ..., N-1.
C1_ChunksCoverPages ==
    /\ \A k \in 1..Len(chunks) :
          /\ Len(chunks[k]) = Min(k * 20, pageCount) - (k - 1) * 20
          /\ Len(chunks[k]) >= 1
          /\ \A j \in 1..Len(chunks[k]) : chunks[k][j] = (k - 1) * 20 + (j - 1)
    /\ ChunkLoopLeft =>
          /\ Len(chunks) = CeilDiv(pageCount, 20)
          /\ Flatten(chunks) = [j \in 1..pageCount |-> j - 1]

C1_Witness ==
    /\ pc = "done"
    /\ pageCount = 45
    /\ Len(chunks) = 3
    /\ Len(chunks[3]) = 5

\* C2: when a call returns after j transient failures, j in {0,1,2}, it has
\* made exactly j+1 requests, it has waited 1000 ms after the first failure and
\* 2000 ms after the second, and it returns the text of the successful response
\* without its code fence.
C2_RetryThenSuccess ==
    (CallReturned /\ \A a \in 1..Len(attemptErrors) : attemptErrors[a] \in TransientMessages)
        => /\ Len(attemptErrors) \in {0, 1, 2}
           /\ callRequests = Len(attemptErrors) + 1
           /\ callDelays = SubSeq(<<1000, 2000>>, 1, Len(attemptErrors))
           /\ chunkCsv = StripFence(lastResponse)
           /\ lastResponse = TextFencedHeaderB => chunkCsv = CanonicalHeader \o <<"\n">> \o RowB
           /\ lastResponse = TextHeaderA => chunkCsv = CanonicalHeader \o <<"\n">> \o RowA

C2_Witness ==
    /\ CallReturned
    /\ attemptErrors = <<MsgInternal, Msg500>>
    /\ callRequests = 3
    /\ callDelays = <<1000, 2000>>
    /\ lastResponse = TextFencedHeaderB

\* C3: a non-transient failure is the last attempt of its call: no delay is
\* waited and no request is made after it, and the call, and with it the
\* pipeline, fails with 'Failed to convert a page...'.
C3_NonTransientAborts ==
    \A a \in 1..Len(attemptErrors) :
        attemptErrors[a] \in NonTransientMessages
            => /\ a = Len(attemptErrors)
               /\ callRequests = a
               /\ callDelays = SubSeq(<<1000, 2000>>, 1, a - 1)
               /\ inFlight = 0
               /\ pc = "failed"
               /\ error = ErrExtractionFailed
               /\ result = <<>>

C3_Witness ==
    /\ attemptErrors = <<Msg500, MsgQuota>>
    /\ callRequests = 2
    /\ error = ErrExtractionFailed

\* C4: a call makes at most 3 requests and waits at most 2 delays; when it
\* throws, the error is 'The AI model is busy...' if the last error was
\* transient and 'Failed to convert a page...' otherwise; three transient
\* failures give 3 requests, 2 delays and 'The AI model is busy...'.
C4_RetryBoundAndErrorKind ==
    /\ callRequests <= 3
    /\ Len(callDelays) <= 2
    /\ Len(attemptErrors) <= 3
    /\ CallThrew =>
          /\ pc = "failed"
          /\ error \in {ErrServiceBusy, ErrExtractionFailed}
          /\ error = ErrServiceBusy <=> attemptErrors[Len(attemptErrors)] \in TransientMessages
          /\ lastError = <<attemptErrors[Len(attemptErrors)]>>
    /\ (Len(attemptErrors) = 3 /\ \A a \in 1..3 : attemptErrors[a] \in TransientMessages)
          => /\ callRequests = 3
             /\ callDelays = <<1000, 2000>>
             /\ pc = "failed"
             /\ error = ErrServiceBusy

C4_Witness ==
    /\ CallThrew
    /\ attemptErrors = <<MsgInternal, Msg500, MsgInternal>>
    /\ callRequests = 3
    /\ error = ErrServiceBusy

\* the non-blank lines of fragment k (counted from 1), whether its first line
\* is a repeated header, and where its kept lines start in the merged list
FragmentNonBlank(k) == NonBlankLines(csvChunkResults[k])

DroppedOf(k) == IF k > 1 /\ HeaderRegexTest(FragmentNonBlank(k)[1]) THEN 1 ELSE 0

KeptOf(k) == Len(FragmentNonBlank(k)) - DroppedOf(k)

RECURSIVE OffsetOf(_)
OffsetOf(k) == IF k <= 1 THEN 0 ELSE OffsetOf(k - 1) + KeptOf(k - 1)

C5_State ==
    /\ inFlight \in {0, 1}
    /\ inFlight = 1 <=> pc = "awaiting"
    /\ pc \in {"attempt", "awaiting", "backoff"} => resolved = Len(chunks) - 1
    /\ pc \in {"loop", "building"} => resolved = Len(chunks)
    /\ Len(fragmentChunk) = Len(csvChunkResults)
    /\ \A k \in 1..Len(fragmentChunk) :
          /\ fragmentChunk[k] \in 0..(Len(chunks) - 1)
          /\ k > 1 => fragmentChunk[k - 1] < fragmentChunk[k]
    /\ pc \in {"correcting", "done"} =>
          \A k \in 1..Len(csvChunkResults) : \A j \in 1..KeptOf(k) :
              /\ OffsetOf(k) + j <= Len(finalCsvLines)
              /\ finalCsvLines[OffsetOf(k) + j] \in Range(FragmentNonBlank(k))

C5_Step ==
    requests' # requests
        => /\ requests' = requests + 1
           /\ inFlight = 0
           /\ inFlight' = 1
           /\ resolved = Len(chunks) - 1

\* C5: at most one request is in flight; a request for a chunk is sent only
\* when no request is in flight and the extraction of every earlier chunk has
\* settled; the fragments are appended in increasing chunk order, and the
\* lines of the merged list come from the fragments in that order.
C5_Sequential == []C5_State /\ [][C5_Step]_vars

C5_Witness ==
    /\ pc = "done"
    /\ fragmentChunk = <<0, 2>>
    /\ requests >= 5

C6_State ==
    /\ pc = "failed" <=> error # ""
    /\ error # "" => result = <<>>
    /\ error \in {ErrServiceBusy, ErrExtractionFailed} =>
          /\ CallThrew
          /\ inFlight = 0
          /\ resolved = Len(chunks)
          /\ finalCsvLines = <<>>
          /\ \A m \in Range(progress) : m.text \notin {MsgCombining, MsgApplying}
          /\ progress[Len(progress)] =
                 [text |-> MsgProcessing, x |-> (Len(chunks) - 1) * 20 + 1,
                  y |-> Min(Len(chunks) * 20, pageCount), n |-> pageCount]

C6_Step ==
    error # "" => UNCHANGED <<requests, inFlight, chunks, progress, finalCsvLines, result,
                              csvChunkResults, pc, error>>

\* C6: a failed pipeline has no result; after the extraction of a chunk has
\* failed, no request is made for a later chunk, 'Combining results...' and
\* 'Applying data corrections...' are never emitted, the merged list stays
\* empty and nothing is returned.
C6_FailureIsFinal == []C6_State /\ [][C6_Step]_vars

C6_Witness ==
    /\ error = ErrServiceBusy
    /\ pageCount = 45
    /\ Len(chunks) = 2
    /\ Len(csvChunkResults) = 1
    /\ requests = 4

\* C7 as stated: whatever the fragments are, line 0 of a non-empty merged list
\* is the canonical header and no later line matches the header pattern.
C7_HeaderInvariantAllFragments ==
    (MergeRan /\ Len(finalCsvLines) >= 1)
        => /\ finalCsvLines[1] = CanonicalHeader
           /\ \A k \in 2..Len(finalCsvLines) : ~HeaderRegexTest(finalCsvLines[k])

\* the first fragment starts with the canonical header, and in no fragment does
\* a line other than the first non-blank one match the header pattern
FragmentsWellFormed ==
    /\ Len(csvChunkResults) >= 1
    /\ FragmentNonBlank(1)[1] = CanonicalHeader
    /\ \A k \in 1..Len(csvChunkResults) : \A j \in 2..Len(FragmentNonBlank(k)) :
          ~HeaderRegexTest(FragmentNonBlank(k)[j])

\* C7 amended: when the first fragment starts with the canonical header and no
\* fragment has a line matching the header pattern after its first non-blank
\* line, line 0 of the merged list is the canonical header and no later line
\* matches the header pattern.
C7_HeaderInvariantWellFormed ==
    (MergeRan /\ FragmentsWellFormed)
        => /\ finalCsvLines[1] = CanonicalHeader
           /\ \A k \in 2..Len(finalCsvLines) : ~HeaderRegexTest(finalCsvLines[k])

C7_Witness ==
    /\ pc = "done"
    /\ FragmentsWellFormed
    /\ Len(csvChunkResults) = 3
    /\ DroppedOf(2) = 1
    /\ DroppedOf(3) = 0

\* C8: the merged list is, fragment after fragment, the non-blank lines of the
\* fragment in order, all of them for the first fragment, and for a later
\* fragment all but the first when the first matches the header pattern, and
\* all of them, the first included, when it does not.
C8_MergeKeepsLines ==
    MergeRan =>
        /\ Len(finalCsvLines) = OffsetOf(Len(csvChunkResults) + 1)
        /\ Len(csvChunkResults) >= 1 =>
               SubSeq(finalCsvLines, 1, Len(FragmentNonBlank(1))) = FragmentNonBlank(1)
        /\ \A k \in 1..Len(csvChunkResults) : \A j \in 1..KeptOf(k) :
               finalCsvLines[OffsetOf(k) + j] = FragmentNonBlank(k)[j + DroppedOf(k)]

C8_Witness ==
    /\ pc = "done"
    /\ csvChunkResults = <<StripFence(TextRowHeaderRow), StripFence(TextRowsBC),
                           StripFence(TextFencedHeaderB)>>
    /\ finalCsvLines = <<RowC, CanonicalHeader, RowA, RowB, RowC, RowB>>

\* C9: a merged list of fewer than 2 lines makes the pipeline fail with
\* 'Conversion resulted in empty or incomplete data...', without 'Applying data
\* corrections...' and without a result; a merged list of 2 or more lines
\* never does.
C9_EmptyResult ==
    /\ (MergeRan /\ Len(finalCsvLines) < 2)
          => /\ pc = "failed"
             /\ error = ErrEmptyResult
             /\ result = <<>>
             /\ StageMessage(MsgApplying) \notin Range(progress)
    /\ (MergeRan /\ Len(finalCsvLines) >= 2)
          => /\ pc \in {"correcting", "done"}
             /\ error = ""
    /\ error = ErrEmptyResult => (MergeRan /\ Len(finalCsvLines) < 2)

C9_Witness ==
    /\ error = ErrEmptyResult
    /\ Len(csvChunkResults) = 2
    /\ finalCsvLines = <<CanonicalHeader>>

\* C10: a document of 0 pages makes the pipeline fail with 'The PDF file is
\* empty or corrupted.' with 'Loading PDF...' as the only progress message, no
\* chunk built and no request made.
C10_EmptyDocument ==
    /\ error = ErrInvalidDocument
          => /\ pageCount = 0
             /\ pc = "failed"
             /\ requests = 0
             /\ inFlight = 0
             /\ chunks = <<>>
             /\ progress = <<StageMessage(MsgLoading)>>
             /\ result = <<>>
    /\ pageCount = 0
          => /\ pc \in {"idle", "loading", "failed"}
             /\ requests = 0
             /\ \A m \in Range(progress) : m.text # MsgProcessing
    /\ (pageCount = 0 /\ pc = "failed" /\ error \notin {ErrConfiguration, ErrLoad})
          => error = ErrInvalidDocument

C10_Witness ==
    /\ error = ErrInvalidDocument
    /\ pageCount = 0
    /\ progress = <<StageMessage(MsgLoading)>>

\* C11: without the credential the pipeline fails with 'API_KEY is not
\* configured...' as its first and only step: no progress message, no document
\* loaded, no chunk built and no request made.
C11_MissingCredential ==
    /\ ~apiKey
          => /\ pc \in {"idle", "failed"}
             /\ pc = "failed" => error = ErrConfiguration
             /\ progress = <<>>
             /\ pageCount = 0
             /\ chunks = <<>>
             /\ requests = 0
             /\ inFlight = 0
             /\ result = <<>>
    /\ error = ErrConfiguration => ~apiKey

C11_Witness ==
    /\ ~apiKey
    /\ pc = "failed"
    /\ error = ErrConfiguration
    /\ progress = <<>>

\* C12: a run never makes more than 3*ceil(N/20) requests; a run that reaches
\* Done has made at least ceil(N/20); a run that has left the chunk loop
\* without a failed attempt has made exactly ceil(N/20), 3 for N = 45.
C12_RequestCount ==
    /\ requests <= 3 * CeilDiv(pageCount, 20)
    /\ requests <= 3 * Len(chunks)
    /\ pc = "done" => requests >= CeilDiv(pageCount, 20)
    /\ (ChunkLoopLeft /\ failures = 0) => requests = CeilDiv(pageCount, 20)
    /\ (ChunkLoopLeft /\ failures = 0 /\ pageCount = 45) => requests = 3

C12_Witness ==
    /\ pc = "done"
    /\ pageCount = 45
    /\ failures = 0
    /\ requests = 3

\* the header line, split on commas and unquoted, lacks one of the three columns
LacksColumn(headerLine) ==
    LET names == {Unquote(f) : f \in Range(Split(headerLine, ","))}
    IN  StrRunNum \notin names \/ StrPickUpTime \notin names \/ StrPickupAddress \notin names

\* C15: when line 0 of an accepted merged list lacks 'Run Num', 'Pick Up Time'
\* or 'Pickup Address', the correction raises nothing and the pipeline ends in
\* Done with the merged lines, unchanged, joined by newlines.
C15_MissingColumnNoOp ==
    (MergeRan /\ Len(finalCsvLines) >= 2 /\ LacksColumn(finalCsvLines[1]))
        => /\ pc \in {"correcting", "done"}
           /\ error = ""
           /\ pc = "done" => /\ result = <<Join(finalCsvLines, "\n")>>
                             /\ Split(result[1], "\n") = finalCsvLines

C15_Witness ==
    /\ pc = "done"
    /\ csvChunkResults = <<StripFence(TextNoAddress), StripFence(TextFencedHeaderB)>>
    /\ Len(finalCsvLines) = 4
    /\ finalCsvLines[3] = <<"1", "/", "2", ",", "5", ",">>
    /\ finalCsvLines[4] = RowB
    /\ LacksColumn(finalCsvLines[1])
    /\ result = <<Join(finalCsvLines, "\n")>>

\* the k-th 'Processing pages' message of a run over count pages
ExpectedProcessing(k, count) ==
    [text |-> MsgProcessing, x |-> (k - 1) * 20 + 1, y |-> Min(k * 20, count), n |-> count]

ProcessingCount == Cardinality({k \in 1..Len(progress) : progress[k].text = MsgProcessing})

C16_State ==
    /\ pc = "idle" => progress = <<>>
    /\ progress # <<>> => progress[1] = StageMessage(MsgLoading)
    /\ ProcessingCount = Len(chunks) + (IF pc = "building" THEN 1 ELSE 0)
    /\ \A k \in 1..ProcessingCount : progress[k + 1] = ExpectedProcessing(k, pageCount)
    /\ Len(progress) <= ProcessingCount + 3
    /\ Len(progress) >= ProcessingCount + 2 =>
          /\ progress[ProcessingCount + 2] = StageMessage(MsgCombining)
          /\ ProcessingCount = CeilDiv(pageCount, 20)
    /\ Len(progress) = ProcessingCount + 3 =>
          progress[ProcessingCount + 3] = StageMessage(MsgApplying)
    /\ pc = "done" => Len(progress) = CeilDiv(pageCount, 20) + 3

C16_Step == pc \in {"attempt", "awaiting", "backoff"} => progress' = progress

FillInit ==
    /\ InitPipeline
    /\ InitApp
    /\ apiKey
    /\ fnPc = "input"
    /\ fnInput \in FillInputs
    /\ fnOutput = <<>>
    /\ fnOutput2 = <<>>

\* applyFillDownLogic(csvLines)
FillApply ==
    /\ fnPc = "input"
    /\ fnOutput' = applyFillDownLogic(fnInput)
    /\ fnPc' = "once"
    /\ UNCHANGED <<appVars, pipelineVars, fnInput, fnOutput2>>

\* applyFillDownLogic applied to what it returned
FillApplyAgain ==
    /\ fnPc = "once"
    /\ fnOutput2' = applyFillDownLogic(fnOutput)
    /\ fnPc' = "twice"
    /\ UNCHANGED <<appVars, pipelineVars, fnInput, fnOutput>>

FillNext == FillApply \/ FillApplyAgain

FillSpec == FillInit /\ [][FillNext]_vars

\* the function has been applied to a list whose header has the three columns
FillCorrected ==
    /\ fnPc \in {"once", "twice"}
    /\ Len(fnInput) >= 2
    /\ ~LacksColumn(fnInput[1])

HeaderNames(headerLine) ==
    LET fields == Split(headerLine, ",") IN [k \in 1..Len(fields) |-> Unquote(fields[k])]

\* positions, counted from 1, of the three columns in a row
ColRun == IndexOf(HeaderNames(fnInput[1]), StrRunNum) + 1
ColTime == IndexOf(HeaderNames(fnInput[1]), StrPickUpTime) + 1
ColAddress == IndexOf(HeaderNames(fnInput[1]), StrPickupAddress) + 1
ColMax == Max(ColRun, Max(ColTime, ColAddress))

RowCount == Len(fnInput) - 1
InRow(k) == Split(fnInput[k + 1], ",")
OutRow(k) == Split(fnOutput[k + 1], ",")

\* the unquoted value of a column of a row, empty when the row has no such field
ValueAt(row, col) == IF col <= Len(row) THEN Unquote(row[col]) ELSE <<>>

\* row k shares a non-empty Run Num with the corrected row k-1
SameRunAsPrevious(k) ==
    /\ Len(InRow(k)) >= ColRun
    /\ Len(OutRow(k - 1)) >= ColRun
    /\ ValueAt(InRow(k), ColRun) # <<>>
    /\ ValueAt(InRow(k), ColRun) = ValueAt(OutRow(k - 1), ColRun)

\* C13: a data row that shares a non-empty Run Num with the corrected row
\* before it, has an empty Pick Up Time or Pickup Address, and whose
\* predecessor has both fields, gets both slots overwritten with the
\* predecessor's raw values; its other fields are as they were.
C13_FillDownOverwritesBoth ==
    FillCorrected =>
        /\ Len(fnOutput) = Len(fnInput)
        /\ \A k \in 2..RowCount :
              (/\ SameRunAsPrevious(k)
               /\ ValueAt(InRow(k), ColTime) = <<>> \/ ValueAt(InRow(k), ColAddress) = <<>>
               /\ Len(OutRow(k - 1)) >= ColMax)
                  => /\ Len(OutRow(k)) = Max(Len(InRow(k)), ColMax)
                     /\ OutRow(k)[ColTime] = OutRow(k - 1)[ColTime]
                     /\ OutRow(k)[ColAddress] = OutRow(k - 1)[ColAddress]
                     /\ \A c \in 1..Len(InRow(k)) :
                           c \notin {ColTime, ColAddress} => OutRow(k)[c] = InRow(k)[c]

C13_Witness ==
    /\ fnPc = "once"
    /\ fnInput = <<FillHeader, FillRowFull, FillRowNoAddress>>
    /\ fnOutput = <<FillHeader, FillRowFull, FillRowFull>>

\* C14: applying applyFillDownLogic to its own result returns that result.
C14_Idempotent == fnPc = "twice" => fnOutput2 = fnOutput

C14_Witness ==
    /\ fnPc = "twice"
    /\ fnInput = <<FillHeader, FillRowNoTime, FillRowShort, FillRowBlank>>
    /\ fnOutput # fnInput
    /\ Len(OutRow(2)) = 5
    /\ fnOutput2 = fnOutput

\* C18 as stated: a data row with fewer fields than the largest of the three
\* column indices plus one comes out as it went in.
C18_ShortRowUntouched ==
    FillCorrected =>
        \A k \in 1..RowCount : Len(InRow(k)) < ColMax => fnOutput[k + 1] = fnInput[k + 1]

\* C20: in a block of consecutive data rows that share one non-empty Run Num,
\* all have the fields of the three columns, and the first of which has a
\* Pick Up Time and a Pickup Address, every row has both after the correction.
C20_FillDownPropagates ==
    FillCorrected =>
        \A a \in 1..RowCount : \A b \in a..RowCount :
            (/\ \A k \in a..b : /\ Len(InRow(k)) >= ColMax
                                /\ ValueAt(InRow(k), ColRun) = ValueAt(InRow(a), ColRun)
             /\ ValueAt(InRow(a), ColRun) # <<>>
             /\ ValueAt(InRow(a), ColTime) # <<>>
             /\ ValueAt(InRow(a), ColAddress) # <<>>)
                => \A k \in a..b : /\ Len(OutRow(k)) >= ColMax
                                   /\ ValueAt(OutRow(k), ColTime) # <<>>
                                   /\ ValueAt(OutRow(k), ColAddress) # <<>>

C20_Witness ==
    /\ fnPc = "once"
    /\ fnInput = <<FillHeader, FillRowFull, FillRowBlank, FillRowSpaces>>
    /\ fnOutput[3] # fnInput[3]
    /\ OutRow(3)[ColTime] = <<"9">>
    /\ OutRow(3)[ColAddress] = <<"A">>

\* ------------------------------------------------ the fence stripping on its own
FenceLeads == {<<>>, <<"\n">>, <<" ">>}
FenceOpenings == {<<>>, Fence, Fence \o StrCsv, Fence \o StrCsv \o <<"\n">>, Fence \o <<"\n">>}
FenceBodies == {<<>>, <<"A", ",", "2">>, <<"H", ",", "1", "\n", "A", ",", "2">>}
FenceClosings == {<<>>, Fence, <<"\n">> \o Fence}
FenceTrails == {<<>>, <<"\n">>, <<" ", "\n">>}

\* response texts by their parts: white space, opening fence, body, closing
\* fence, white space
FenceInputs ==
    [lead : FenceLeads, opening : FenceOpenings, body : FenceBodies,
     closing : FenceClosings, trail : FenceTrails]

FenceText(parts) == parts.lead \o parts.opening \o parts.body \o parts.closing \o parts.trail

\* a response text is received
FenceInit ==
    /\ InitPipeline
    /\ InitApp
    /\ apiKey
    /\ fnPc = "input"
    /\ fnInput \in FenceInputs
    /\ fnOutput = <<>>
    /\ fnOutput2 = <<>>

\* text.replace(...).replace(...).trim()
FenceApply ==
    /\ fnPc = "input"
    /\ fnOutput' = StripFence(FenceText(fnInput))
    /\ fnPc' = "once"
    /\ UNCHANGED <<appVars, pipelineVars, fnInput, fnOutput2>>

FenceNext == FenceApply

FenceSpec == FenceInit /\ [][FenceNext]_vars

\* a line of the text starts, after white space, with a fence
HasFenceLine(text) == \E line \in Range(Split(text, "\n")) : StartsWith(Trim(line), Fence)

\* C17 as stated: whatever white space precedes the opening fence or follows
\* the closing one, the returned text is the body without the fences and
\* without surrounding white space, and no line of it is a fence.
C17_FenceAlwaysStripped ==
    fnPc = "once" => /\ fnOutput = Trim(fnInput.body)
                     /\ ~HasFenceLine(fnOutput)

\* the two ends of a run: Done holds a result and no error, Failed an error
\* and no result
C19_Outcome ==
    /\ pc = "done" => (result # <<>> /\ error = "")
    /\ pc = "failed" => (result = <<>> /\ error # "")

\* C19: when every request and every backoff delay settles, every run of
\* convertPdfToCsv reaches Done or Failed, whatever the page count and the
\* outcomes of the attempts, and it is in exactly one of them: Done with a
\* CSV string returned, Failed with an error raised.
C19_Terminates == <>(pc = "done" \/ pc = "failed") /\ []C19_Outcome

\* a run of three chunks, each succeeding on its third attempt, is Done
C19_Witness ==
    /\ pc = "done"
    /\ pageCount = 45
    /\ requests = 9
    /\ failures = 6


\* C21 as stated: a Pick Up Time or Pickup Address that was not empty before
\* the correction is not empty after it, in every row of every line list.
C21_NeverBlanksValue ==
    FillCorrected =>
        \A k \in 1..RowCount : \A col \in {ColTime, ColAddress} :
            ValueAt(InRow(k), col) # <<>> => ValueAt(OutRow(k), col) # <<>>

\* C22: the corrected list has as many lines as the given one, with the same
\* header line and the same first data row, and every data row whose unquoted
\* Run Num is empty or differs from that of the corrected row before it is the
\* line it was; a list too short or without the three columns is unchanged.
C22_Frame ==
    fnPc \in {"once", "twice"} =>
        /\ Len(fnOutput) = Len(fnInput)
        /\ Len(fnInput) >= 1 => fnOutput[1] = fnInput[1]
        /\ Len(fnInput) >= 2 => fnOutput[2] = fnInput[2]
        /\ ~FillCorrected => fnOutput = fnInput
        /\ FillCorrected =>
              \A k \in 2..RowCount :
                  (\/ ValueAt(InRow(k), ColRun) = <<>>
                   \/ ValueAt(InRow(k), ColRun) # ValueAt(OutRow(k - 1), ColRun))
                      => fnOutput[k + 1] = fnInput[k + 1]

\* a row of the run before it is filled, the next row of another run is not
C22_Witness ==
    /\ fnPc = "once"
    /\ fnInput = <<FillHeader, FillRowFull, FillRowBlank, FillRowOtherBlank>>
    /\ fnOutput[3] # fnInput[3]
    /\ fnOutput[4] = fnInput[4]
    /\ ValueAt(InRow(3), ColRun) # ValueAt(OutRow(2), ColRun)

\* the step in which callGeminiWithRetry returns to the chunk loop
CallReturns == pc = "awaiting" /\ pc' = "loop"

C23_State ==
    /\ Len(fragmentChunk) = Len(csvChunkResults)
    /\ \A k \in 1..Len(csvChunkResults) : csvChunkResults[k] # <<>>
    /\ \A k \in 1..Len(fragmentChunk) : fragmentChunk[k] < Len(chunks)
    /\ \A k \in 2..Len(fragmentChunk) : fragmentChunk[k - 1] < fragmentChunk[k]
    /\ pc = "done" => Len(chunks) = CeilDiv(pageCount, CHUNK_SIZE)
    /\ (MergeRan /\ csvChunkResults # <<>>) =>
          SubSeq(finalCsvLines, 1, Len(FragmentNonBlank(1))) = FragmentNonBlank(1)

C23_Step ==
    CallReturns =>
        /\ error' = ""
        /\ i' = i + CHUNK_SIZE
        /\ IF chunkCsv' = <<>>
           THEN /\ csvChunkResults' = csvChunkResults
                /\ fragmentChunk' = fragmentChunk
           ELSE /\ csvChunkResults' = Append(csvChunkResults, chunkCsv')
                /\ fragmentChunk' = Append(fragmentChunk, Len(chunks) - 1)

\* C23: a chunk whose extraction returns empty text adds no fragment and
\* raises no error, and the loop goes on to the next chunk; every chunk
\* returning text adds it as a fragment, so the first fragment, whose lines the
\* merge keeps without a header test, is that of the first chunk that
\* returned text, chunk 0 or a later one.
C23_EmptyChunkSkipped == []C23_State /\ [][C23_Step]_vars

\* chunk 0 returned nothing, and the header line of chunk 1 opens the merged list
C23_Witness ==
    /\ pc = "done"
    /\ Len(chunks) = 3
    /\ fragmentChunk = <<1, 2>>
    /\ HeaderRegexTest(finalCsvLines[1])
    /\ finalCsvLines[1] = FragmentNonBlank(1)[1]

\* --------------------------------------------------- App and FileUpload
\* the files a user can pick or drop, by name and type
FilePdfA == [name |-> "a.pdf", type |-> "application/pdf"]
FilePdfB == [name |-> "b.pdf", type |-> "application/pdf"]
FileText == [name |-> "c.txt", type |-> "text/plain"]
Files == {FilePdfA, FilePdfB, FileText}

\* what convertPdfToCsv resolves with
CsvResults == {"h\na", "h\nb"}

MsgInitializing == "Initializing..."
MsgUnknownError == "An unknown error occurred during conversion."
ErrFileRead == "the file could not be read"

\* what setProgressMessage is called with during a conversion of one chunk
AppProgress ==
    <<StageMessage(MsgInitializing), StageMessage(MsgLoading), ProcessingMessage(0, 20, 20),
      StageMessage(MsgCombining), StageMessage(MsgApplying)>>

\* what convertPdfToCsv rejects with after each progress message
AppRejections ==
    <<{ErrConfiguration}, {ErrLoad, ErrInvalidDocument}, {ErrServiceBusy, ErrExtractionFailed},
      {ErrEmptyResult}, {}>>

\* what fileToBase64 rejects with: an Error or another value
EncodeRejections == {[isError |-> TRUE, message |-> ErrFileRead], [isError |-> FALSE, message |-> ""]}

\* err instanceof Error ? err.message : 'An unknown error occurred during conversion.'
ErrorText(err) == IF err.isError THEN err.message ELSE MsgUnknownError

\* handleFileSelect(file), file being <<>> for null
handleFileSelect(file) ==
    /\ selectedFile' = file
    /\ csvData' = <<>>
    /\ appError' = <<>>
    /\ progressMessage' = <<>>

\* FileUpload: handleFileChange with a file picked or dropped, while enabled
HandleFileChange(file) ==
    /\ ~isProcessing
    /\ IF file.type = "application/pdf"
       THEN /\ fileName' = <<file.name>>
            /\ handleFileSelect(<<file>>)
       ELSE /\ fileName' = <<>>
            /\ handleFileSelect(<<>>)
    /\ UNCHANGED <<pipelineVars, fnVars, isProcessing, appPc, lastOutcome, downloaded>>

\* FileUpload: the 'Clear file' button, shown when a file name is set
HandleClearFile ==
    /\ ~isProcessing
    /\ fileName # <<>>
    /\ fileName' = <<>>
    /\ handleFileSelect(<<>>)
    /\ UNCHANGED <<pipelineVars, fnVars, isProcessing, appPc, lastOutcome, downloaded>>

\* mutant: the CSV of the conversion before is kept when a conversion starts
HandleConvertKeepsCsv ==
    /\ selectedFile # <<>>
    /\ ~isProcessing
    /\ isProcessing' = TRUE
    /\ appError' = <<>>
    /\ progressMessage' = <<AppProgress[1]>>
    /\ appPc' = "encoding"
    /\ UNCHANGED <<pipelineVars, fnVars, selectedFile, csvData, fileName, lastOutcome,
                   downloaded>>

\* handleConvert up to its first await; the button is disabled without a file
\* or while processing
HandleConvert ==
    /\ selectedFile # <<>>
    /\ ~isProcessing
    /\ isProcessing' = TRUE
    /\ appError' = <<>>
    /\ csvData' = <<>>
    /\ progressMessage' = <<AppProgress[1]>>
    /\ appPc' = "encoding"
    /\ UNCHANGED <<pipelineVars, fnVars, selectedFile, fileName, lastOutcome, downloaded>>

\* the catch block and the finally block
CatchFinally(err) ==
    /\ appError' = <<ErrorText(err)>>
    /\ isProcessing' = FALSE
    /\ progressMessage' = <<>>
    /\ appPc' = "idle"
    /\ lastOutcome' = "failure"
    /\ UNCHANGED <<pipelineVars, fnVars, selectedFile, csvData, fileName, downloaded>>

\* fileToBase64 resolves and convertPdfToCsv is called
EncodeResolve ==
    /\ appPc = "encoding"
    /\ appPc' = "converting"
    /\ UNCHANGED <<pipelineVars, fnVars, selectedFile, isProcessing, progressMessage, csvData,
                   appError, fileName, lastOutcome, downloaded>>

\* fileToBase64 rejects
EncodeReject(err) ==
    /\ appPc = "encoding"
    /\ CatchFinally(err)

\* convertPdfToCsv calls onProgressUpdate, which is setProgressMessage
ConvertProgress ==
    /\ appPc = "converting"
    /\ \E k \in 1..(Len(AppProgress) - 1) :
          /\ progressMessage = <<AppProgress[k]>>
          /\ progressMessage' = <<AppProgress[k + 1]>>
    /\ UNCHANGED <<pipelineVars, fnVars, selectedFile, isProcessing, csvData, appError, fileName,
                   appPc, lastOutcome, downloaded>>

\* convertPdfToCsv resolves: setCsvData and the finally block
ConvertResolve(generatedCsv) ==
    /\ appPc = "converting"
    /\ progressMessage = <<AppProgress[Len(AppProgress)]>>
    /\ csvData' = <<generatedCsv>>
    /\ isProcessing' = FALSE
    /\ progressMessage' = <<>>
    /\ appPc' = "idle"
    /\ lastOutcome' = "success"
    /\ UNCHANGED <<pipelineVars, fnVars, selectedFile, appError, fileName, downloaded>>

\* convertPdfToCsv rejects with an Error of the given message
ConvertReject(message) ==
    /\ appPc = "converting"
    /\ \E k \in 1..Len(AppProgress) :
          /\ progressMessage = <<AppProgress[k]>>
          /\ message \in AppRejections[k]
    /\ CatchFinally([isError |-> TRUE, message |-> message])

\* handleDownload; the button is disabled without a CSV or while processing
HandleDownload ==
    /\ csvData # <<>>
    /\ ~isProcessing
    /\ downloaded' = csvData
    /\ UNCHANGED <<pipelineVars, fnVars, selectedFile, isProcessing, progressMessage, csvData,
                   appError, fileName, appPc, lastOutcome>>

AppNext ==
    \/ \E file \in Files : HandleFileChange(file)
    \/ HandleClearFile
    \/ HandleConvert
    \/ EncodeResolve
    \/ \E err \in EncodeRejections : EncodeReject(err)
    \/ ConvertProgress
    \/ \E generatedCsv \in CsvResults : ConvertResolve(generatedCsv)
    \/ \E message \in UNION Range(AppRejections) : ConvertReject(message)
    \/ HandleDownload

\* App is mounted; convertPdfToCsv itself is not stepped here
AppInit == Init /\ apiKey

AppSpec == AppInit /\ [][AppNext]_vars

\* C24: in App, over any sequence of file selections, conversions and
\* downloads, csvData and error are never both set; once a conversion has
\* ended, in success or in failure, isProcessing is false and progressMessage
\* is null until the next one starts; and from the end of a failed conversion
\* on csvData is null, so no download hands over the CSV of an earlier
\* successful conversion.
C24_State ==
    /\ ~(csvData # <<>> /\ appError # <<>>)
    /\ appPc = "idle" => (~isProcessing /\ progressMessage = <<>>)
    /\ lastOutcome = "failure" => csvData = <<>>

C24_Step ==
    /\ (appPc # "idle" /\ appPc' = "idle") =>
          /\ ~isProcessing'
          /\ progressMessage' = <<>>
          /\ (csvData' # <<>>) # (appError' # <<>>)
    /\ lastOutcome = "failure" => downloaded' = downloaded

C24_AppState == []C24_State /\ [][C24_Step]_vars

\* a conversion succeeded and its CSV was downloaded, then a conversion of
\* the same file failed: the CSV is gone
C24_Witness ==
    /\ appPc = "idle"
    /\ lastOutcome = "failure"
    /\ downloaded # <<>>
    /\ selectedFile = <<FilePdfA>>
    /\ appError = <<ErrServiceBusy>>
    /\ csvData = <<>>
====
